---- MODULE Spec2Model ----
(***************************************************************************)
(* Model of src/app_streamlit.py: the recursive coordinate walker          *)
(* (reproject_coords, reproject_feature, get_all_coords) and the render    *)
(* pass of the Streamlit script (widgets, fetch_projects, map / plan       *)
(* selection, fetch_features, reprojection, map drawing, table).           *)
(*                                                                         *)
(* JSON values are tagged records: a number n is [num |-> n], an array is  *)
(* [arr |-> <<...>>].  A raised Python exception is [err |-> name].        *)
(***************************************************************************)
EXTENDS Integers, Sequences, FiniteSets, TLC

\* ------------------------------------------------------------------ bounds
\* the grid positions of the responses: eastings 0..GridSpan, each with the
\* northing GridSpan - easting, so that no position has both the least easting
\* and the least northing
GridSpan == 1
\* number of JSON arrays (leaves included) in a coordinate structure given to the walker
WalkNodes == 7
\* size of a features list handed to the reprojection pipeline: its features plus
\* the JSON arrays (leaves included) of their coordinates
PipeNodes == 6
\* the same size, of a features response inside a whole render pass
MaxNodes == 2
\* number of projects in one projects response
MaxProjects == 2
\* number of render passes of one session
MaxPasses == 3

\* ------------------------------------------------------------------ JSON values
Num(n) == [num |-> n]
Arr(s) == [arr |-> s]
Err(e) == [err |-> e]
IsNum(v) == "num" \in DOMAIN v
IsArr(v) == "arr" \in DOMAIN v
IsErr(v) == "err" \in DOMAIN v

\* first raised exception of a sequence of results, in evaluation order
FirstErr(rs) == rs[CHOOSE i \in 1..Len(rs) : IsErr(rs[i]) /\ \A j \in 1..(i-1) : ~IsErr(rs[j])]
AnyErr(rs) == \E i \in 1..Len(rs) : IsErr(rs[i])

\* ------------------------------------------------------------------ projection
\* bng_to_wgs84.transform(x, y) with always_xy: (easting, northing) -> (lon, lat).
\* The numerics of pyproj are abstracted to an injective integer map whose
\* longitudes (negative) and latitudes (around 50) are disjoint from each other
\* and from the grid, so an untransformed, a transformed and a twice-transformed
\* pair are all different, and longitude and latitude cannot be confused.
LonOf(e, n) == e - 8
LatOf(e, n) == n + 50

\* transform(*coords): needs 2..4 numeric arguments, passes z / t through
transform(args) ==
    IF Len(args) < 2 \/ Len(args) > 4 \/ \E i \in 1..Len(args) : ~IsNum(args[i])
    THEN Err("TypeError")
    ELSE Arr(<<Num(LonOf(args[1].num, args[2].num)), Num(LatOf(args[1].num, args[2].num))>>
             \o SubSeq(args, 3, Len(args)))

\* ------------------------------------------------------------------ walker
\* reproject_coords with an off-by-one in the comprehension: the last element
\* of every list of sub-geometries is left out
RECURSIVE reproject_coords_short(_)
reproject_coords_short(coords) ==
    IF ~IsArr(coords) THEN Err("TypeError")
    ELSE IF Len(coords.arr) = 0 THEN Err("IndexError")
    ELSE IF IsNum(coords.arr[1]) THEN transform(coords.arr)
    ELSE LET rs == [i \in 1..(Len(coords.arr) - 1) |-> reproject_coords_short(coords.arr[i])]
         IN  IF AnyErr(rs) THEN FirstErr(rs) ELSE Arr(rs)

RECURSIVE reproject_coords(_)
reproject_coords(coords) ==
    IF ~IsArr(coords) THEN Err("TypeError")
    ELSE IF Len(coords.arr) = 0 THEN Err("IndexError")
    ELSE IF IsNum(coords.arr[1]) THEN transform(coords.arr)
    ELSE LET rs == [i \in 1..Len(coords.arr) |-> reproject_coords(coords.arr[i])]
         IN  IF AnyErr(rs) THEN FirstErr(rs) ELSE Arr(rs)

SupportedTypes == {"Point", "LineString", "Polygon", "MultiPoint", "MultiLineString", "MultiPolygon"}

\* A feature is [geometry |-> g]; a geometry is a record with an optional
\* "type" and an optional "coordinates" field; a feature without a geometry
\* key is [nogeom |-> TRUE].
GeomOf(feature) == IF "geometry" \in DOMAIN feature THEN feature.geometry ELSE [none |-> TRUE]
TypeOf(geom) == IF "type" \in DOMAIN geom THEN geom.type ELSE "None"

\* reproject_feature that walks the coordinates it has already replaced a
\* second time
reproject_feature_twice(feature) ==
    LET geom == GeomOf(feature) IN
    IF TypeOf(geom) \in SupportedTypes
    THEN IF "coordinates" \notin DOMAIN geom THEN Err("KeyError")
         ELSE LET r == reproject_coords(geom.coordinates) IN
              IF IsErr(r) THEN r
              ELSE [geometry |-> [geom EXCEPT !.coordinates = reproject_coords(r)]]
    ELSE [geometry |-> geom]

\* reproject_feature mutates the feature and returns it; the result is the
\* mutated feature, or the exception raised
reproject_feature(feature) ==
    LET geom == GeomOf(feature) IN
    IF TypeOf(geom) \in SupportedTypes
    THEN IF "coordinates" \notin DOMAIN geom THEN Err("KeyError")
         ELSE LET r == reproject_coords(geom.coordinates) IN
              IF IsErr(r) THEN r
              ELSE [geometry |-> [geom EXCEPT !.coordinates = r]]
    ELSE [geometry |-> geom]

\* extract_coords appends the leaves of geom_coords to the list coords (acc)
RECURSIVE extract_coords(_, _)
RECURSIVE extract_each(_, _, _)
extract_each(items, i, acc) ==
    IF i > Len(items) THEN acc
    ELSE LET r == extract_coords(items[i], acc) IN
         IF IsErr(r) THEN r ELSE extract_each(items, i + 1, r)

extract_coords(geom_coords, acc) ==
    IF ~IsArr(geom_coords) THEN Err("TypeError")
    ELSE IF Len(geom_coords.arr) = 0 THEN Err("IndexError")
    ELSE IF IsNum(geom_coords.arr[1]) THEN Arr(Append(acc.arr, geom_coords))
    ELSE extract_each(geom_coords.arr, 1, acc)

RECURSIVE get_all_from(_, _, _)
get_all_from(features, i, acc) ==
    IF i > Len(features) THEN acc
    ELSE LET geom == GeomOf(features[i]) IN
         IF "coordinates" \in DOMAIN geom
         THEN LET r == extract_coords(geom.coordinates, acc) IN
              IF IsErr(r) THEN r ELSE get_all_from(features, i + 1, r)
         ELSE get_all_from(features, i + 1, acc)

\* get_all_coords returns the flat list of leaves (an array), or the exception raised
get_all_coords(features) == get_all_from(features, 1, Arr(<<>>))

\* ------------------------------------------------------------------ inputs
\* leaf coordinate pairs (easting, northing) on the grid
Leaves == {Arr(<<Num(e), Num(GridSpan - e)>>) : e \in 0..GridSpan}

\* nesting depth of the coordinates of each geometry type (GeoJSON)
DepthOf(type) ==
    CASE type = "Point" -> 1
      [] type \in {"LineString", "MultiPoint"} -> 2
      [] type \in {"Polygon", "MultiLineString"} -> 3
      [] type = "MultiPolygon" -> 4
      [] OTHER -> 1

\* Trees(d, c): the coordinate structures of nesting depth d made of exactly c
\* arrays: a leaf or an empty array at depth 1, an array of depth d-1
\* structures (possibly empty) above
RECURSIVE Trees(_, _)
RECURSIVE Forests(_, _)
Forests(d, c) ==
    IF c = 0 THEN {<<>>}
    ELSE UNION {{<<t>> \o s : t \in Trees(d, k), s \in Forests(d, c - k)} : k \in 1..c}

Trees(d, c) ==
    IF c < 1 THEN {}
    ELSE IF d = 1 THEN (IF c = 1 THEN Leaves \cup {Arr(<<>>)} ELSE {})
    ELSE {Arr(s) : s \in Forests(d - 1, c - 1)}

TreesUpTo(d, c) == UNION {Trees(d, k) : k \in 1..c}

\* a geometry type the walker is not dispatched on
ForeignType == "Circle"

\* the features of size exactly c a response may carry (1 for the feature plus
\* the arrays of its coordinates): the six supported types with coordinates of
\* their depth, a foreign type with a position, a supported type without
\* coordinates, a feature without geometry
FeaturesOfCost(c) ==
    UNION {{[geometry |-> [type |-> t, coordinates |-> x]] : x \in Trees(DepthOf(t), c - 1)}
           : t \in SupportedTypes \cup {ForeignType}}
    \cup (IF c = 1 THEN {[geometry |-> [type |-> "Point"]], [nogeom |-> TRUE]} ELSE {})

RECURSIVE FeatureListsOfCost(_)
FeatureListsOfCost(c) ==
    IF c = 0 THEN {<<>>}
    ELSE UNION {{<<f>> \o fs : f \in FeaturesOfCost(k), fs \in FeatureListsOfCost(c - k)} : k \in 1..c}

FeatureLists(b) == UNION {FeatureListsOfCost(c) : c \in 0..b}

\* the projects a response may carry: ids are unique, names may repeat, mapName
\* may be absent
PlanNames == {"", "A", "B"}
MapNames == {"", "M"}
ProjectShapes ==
    {[name |-> nm, mapName |-> m] : nm \in PlanNames, m \in MapNames}
    \cup {[name |-> nm] : nm \in PlanNames}
WithId(shape, i) ==
    IF "mapName" \in DOMAIN shape
    THEN [id |-> i, name |-> shape.name, mapName |-> shape.mapName]
    ELSE [id |-> i, name |-> shape.name]
ProjectLists ==
    UNION {{[i \in 1..k |-> WithId(sh[i], i)] : sh \in [1..k -> ProjectShapes]} : k \in 0..MaxProjects}

\* ------------------------------------------------------------------ state
VARIABLES
    pc,               \* position of the script: "start", "projects", "features", "reproject",
                      \* "draw", "table", "done", "failed"; "walk" / "walked" for the walker alone
    passNo,           \* number of the current render pass (rerun of the script)
    api_key_input,    \* value of the API key text input (widget state, kept across reruns)
    projects,         \* data of the projects response of this pass
    selected_map_name,
    selected_project,
    project_id,
    fetched,          \* data of the features response of this pass, as received
    features,         \* the feature objects of this pass (mutated in place by reproject_feature)
    fit,              \* the argument of m.fit_bounds, <<>> when fit_bounds was not called
    out,              \* what this pass has sent and rendered so far, in order
    exc,              \* the exception that ended this pass, "" when none
    wIn, wOut, wBefore, wAfter   \* walker alone: input, result, leaves before and after

vars == <<pc, passNo, api_key_input, projects, selected_map_name, selected_project,
          project_id, fetched, features, fit, out, exc, wIn, wOut, wBefore, wAfter>>

passVars == <<projects, selected_map_name, selected_project, project_id, fetched, features, fit>>
walkVars == <<wIn, wOut, wBefore, wAfter>>

ApiKeys == {"", "key"}

TEMPLATE_TYPES ==
    <<"BPS", "CSS", "FRM", "RLE1", "OWNERSHIP", "FR1", "SALES_PLAN", "VALUATION_PLAN", "ESS",
      "UKHAB", "UKHAB_V2", "USER", "LAND_MANAGEMENT", "LAND_MANAGEMENT_V2", "SFI2022", "SFI2023",
      "SFI2024", "PEAT_ASSESSMENT", "OSMM", "FER", "WCT", "BLANK_SURVEY", "SOIL_SURVEY",
      "AGROFORESTRY", "CSS_2025", "HEALTHY_HEDGEROWS", "SAF">>

\* the widgets every pass renders before the main branch (lines 48-121)
Widgets == <<"markdown", "text_input", "checkbox", "selectbox_template">>

\* ------------------------------------------------------------------ map / plan selection
\* proj.get("mapName", "Uncategorized")
MapNameOf(proj) == IF "mapName" \in DOMAIN proj THEN proj.mapName ELSE "Uncategorized"

\* grouping that appends every project to every group
GroupByMap_all(projs) ==
    [m \in {MapNameOf(projs[i]) : i \in 1..Len(projs)} |-> projs]

\* the dict maps: map name -> the projects of that name, in response order
GroupByMap(projs) ==
    [m \in {MapNameOf(projs[i]) : i \in 1..Len(projs)} |->
        SelectSeq(projs, LAMBDA p : MapNameOf(p) = m)]

\* the dict comprehension {proj["name"]: proj["id"] for proj in projects_in_map}:
\* a later project overwrites an earlier one of the same name
ProjectOptions(projects_in_map) ==
    [nm \in {projects_in_map[i].name : i \in 1..Len(projects_in_map)} |->
        projects_in_map[CHOOSE i \in 1..Len(projects_in_map) :
            /\ projects_in_map[i].name = nm
            /\ \A j \in (i+1)..Len(projects_in_map) : projects_in_map[j].name # nm].id]

\* ------------------------------------------------------------------ bounds
Min(S) == CHOOSE x \in S : \A y \in S : x <= y
Max(S) == CHOOSE x \in S : \A y \in S : x >= y

\* the bounds with the two names bound the other way round
FitBoundsArg_lonlat(all_coords) ==
    LET lons == {all_coords[i].arr[1].num : i \in 1..Len(all_coords)}
        lats == {all_coords[i].arr[2].num : i \in 1..Len(all_coords)}
    IN  <<<<Min(lons), Min(lats)>>, <<Max(lons), Max(lats)>>>>

\* lats, lons = zip(*all_coords); [[min(lons), min(lats)], [max(lons), max(lats)]]:
\* zip yields the first components, then the second ones, and the two names
\* are bound in that order
FitBoundsArg(all_coords) ==
    LET lats == {all_coords[i].arr[1].num : i \in 1..Len(all_coords)}
        lons == {all_coords[i].arr[2].num : i \in 1..Len(all_coords)}
    IN  <<<<Min(lons), Min(lats)>>, <<Max(lons), Max(lats)>>>>

\* zip(*all_coords) has as many rows as the shortest leaf; unpacking needs two
UnpackFails(all_coords) ==
    \/ \E i \in 1..Len(all_coords) : Len(all_coords[i].arr) < 2
    \/ \A j \in 1..Len(all_coords) : Len(all_coords[j].arr) > 2

\* [reproject_feature(f) for f in features]: the list after the comprehension, the
\* features before the first failing one already mutated
FirstFailing(fs) ==
    IF \E i \in 1..Len(fs) : IsErr(reproject_feature(fs[i]))
    THEN Min({i \in 1..Len(fs) : IsErr(reproject_feature(fs[i]))})
    ELSE 0
ReprojectAll(fs) ==
    LET k == FirstFailing(fs) IN
    [i \in 1..Len(fs) |-> IF k = 0 \/ i < k THEN reproject_feature(fs[i]) ELSE fs[i]]

\* ------------------------------------------------------------------ render pass
Init ==
    /\ pc = "start"
    /\ passNo = 1
    /\ api_key_input = ""
    /\ projects = <<>>
    /\ selected_map_name = ""
    /\ selected_project = ""
    /\ project_id = 0
    /\ fetched = <<>>
    /\ features = <<>>
    /\ fit = <<>>
    /\ out = <<>>
    /\ exc = ""
    /\ wIn = Arr(<<>>) /\ wOut = Arr(<<>>) /\ wBefore = Arr(<<>>) /\ wAfter = Arr(<<>>)

\* if not api_key_input: blank map of Great Britain (lines 140-143)
BlankMap ==
    /\ pc = "start"
    /\ api_key_input = ""
    /\ out' = Widgets \o <<"blank_map">>
    /\ pc' = "done"
    /\ UNCHANGED <<passNo, api_key_input, passVars, exc, walkVars>>

\* fetch_projects without raise_for_status: the body of a non-2xx response is
\* read like any other, its missing "data" giving []
FetchProjects_noraise ==
    /\ pc = "start"
    /\ api_key_input # ""
    /\ \E ok \in BOOLEAN :
         IF ok
         THEN \E data \in ProjectLists :
                /\ projects' = data
                /\ out' = Widgets \o <<"GET projects: 2xx">>
         ELSE /\ projects' = <<>>
              /\ out' = Widgets \o <<"GET projects: non-2xx">>
    /\ pc' = "projects"
    /\ UNCHANGED <<passNo, api_key_input, selected_map_name, selected_project, project_id,
                   fetched, features, fit, exc, walkVars>>

\* fetch_projects behind a cache: a later rerun is served a stored response
\* and sends nothing
FetchProjects_cached ==
    /\ pc = "start"
    /\ api_key_input # ""
    /\ \E ok \in BOOLEAN :
         IF ok \/ passNo > 2
         THEN \E data \in ProjectLists :
                /\ projects' = data
                /\ out' = IF passNo > 2 THEN Widgets ELSE Widgets \o <<"GET projects: 2xx">>
                /\ pc' = "projects"
                /\ exc' = exc
         ELSE /\ projects' = projects
              /\ out' = Widgets \o <<"GET projects: non-2xx">>
              /\ pc' = "failed"
              /\ exc' = "HTTPError"
    /\ UNCHANGED <<passNo, api_key_input, selected_map_name, selected_project, project_id,
                   fetched, features, fit, walkVars>>

\* fetch_projects (lines 124-130, 146): a blocking GET; raise_for_status raises
\* on a non-2xx response; .get("data", []) of the body otherwise.  The template
\* type and the published filter only shape the URL.
FetchProjects ==
    /\ pc = "start"
    /\ api_key_input # ""
    /\ \E template_type \in {TEMPLATE_TYPES[i] : i \in 1..Len(TEMPLATE_TYPES)},
          published_only \in BOOLEAN, ok \in BOOLEAN :
         IF ok
         THEN \E data \in ProjectLists :
                /\ projects' = data
                /\ out' = Widgets \o <<"GET projects: 2xx">>
                /\ pc' = "projects"
                /\ exc' = exc
         ELSE /\ projects' = projects
              /\ out' = Widgets \o <<"GET projects: non-2xx">>
              /\ pc' = "failed"
              /\ exc' = "HTTPError"
    /\ UNCHANGED <<passNo, api_key_input, selected_map_name, selected_project, project_id,
                   fetched, features, fit, walkVars>>

\* lines 148-151 and 231-232: the expanders, then nothing but a message when
\* the project list is empty
NoProjects ==
    /\ pc = "projects"
    /\ projects = <<>>
    /\ out' = out \o <<"expander_projects_url", "expander_projects_json", "no_projects">>
    /\ pc' = "done"
    /\ UNCHANGED <<passNo, api_key_input, passVars, exc, walkVars>>

\* lines 148-173: the expanders, grouping, the two select boxes.  A select box
\* returns one of its options: the first one by default, another one after the
\* user has chosen it.
SelectPlan ==
    /\ pc = "projects"
    /\ projects # <<>>
    /\ LET maps == GroupByMap(projects) IN
       \E map_name \in DOMAIN maps :
         /\ selected_map_name' = map_name
         /\ IF map_name # ""
            THEN LET project_options == ProjectOptions(maps[map_name]) IN
                 \E plan \in DOMAIN project_options :
                   /\ selected_project' = plan
                   /\ IF plan # ""
                      THEN /\ project_id' = project_options[plan]
                           /\ pc' = "features"
                      ELSE /\ project_id' = project_id
                           /\ pc' = "done"
                   /\ out' = out \o <<"expander_projects_url", "expander_projects_json",
                                      "select_map", "select_plan">>
            ELSE /\ selected_project' = selected_project
                 /\ project_id' = project_id
                 /\ pc' = "done"
                 /\ out' = out \o <<"expander_projects_url", "expander_projects_json", "select_map">>
    /\ UNCHANGED <<passNo, api_key_input, projects, fetched, features, fit, exc, walkVars>>

\* fetch_features (lines 133-137, 176-184)
FetchFeatures ==
    /\ pc = "features"
    /\ \E ok \in BOOLEAN :
         IF ok
         THEN \E data \in FeatureLists(MaxNodes) :
                /\ fetched' = data
                /\ features' = data
                /\ out' = out \o <<"GET features: 2xx", "expander_features_url",
                                   "expander_features_json", "found_n_features">>
                /\ pc' = "reproject"
                /\ exc' = exc
         ELSE /\ fetched' = fetched
              /\ features' = features
              /\ out' = Append(out, "GET features: non-2xx")
              /\ pc' = "failed"
              /\ exc' = "HTTPError"
    /\ UNCHANGED <<passNo, api_key_input, projects, selected_map_name, selected_project,
                   project_id, fit, walkVars>>

\* features_reprojected = [reproject_feature(f) for f in features] (line 187):
\* the list holds the same, mutated, objects as features
Reproject ==
    /\ pc = "reproject"
    /\ features' = ReprojectAll(features)
    /\ IF FirstFailing(features) = 0
       THEN /\ pc' = "draw"
            /\ exc' = exc
       ELSE /\ pc' = "failed"
            /\ exc' = reproject_feature(features[FirstFailing(features)]).err
    /\ UNCHANGED <<passNo, api_key_input, projects, selected_map_name, selected_project,
                   project_id, fetched, fit, out, walkVars>>

\* the map drawn without the `if all_coords:` guard: zip(*[]) yields nothing
\* to unpack
DrawMap_noguard ==
    /\ pc = "draw"
    /\ LET all_coords == get_all_coords(features) IN
       IF IsErr(all_coords)
       THEN /\ exc' = all_coords.err /\ pc' = "failed" /\ fit' = fit /\ out' = out
       ELSE IF Len(all_coords.arr) = 0 \/ UnpackFails(all_coords.arr)
       THEN /\ exc' = "ValueError" /\ pc' = "failed" /\ fit' = fit /\ out' = out
       ELSE /\ exc' = exc /\ pc' = "table"
            /\ fit' = FitBoundsArg(all_coords.arr)
            /\ out' = out \o <<"fit_bounds", "map">>
    /\ UNCHANGED <<passNo, api_key_input, projects, selected_map_name, selected_project,
                   project_id, fetched, features, walkVars>>

\* lines 190-210: the map, one GeoJson layer per feature, the zoom to the
\* bounds of all leaves, st_folium
DrawMap ==
    /\ pc = "draw"
    /\ LET all_coords == get_all_coords(features) IN
       IF IsErr(all_coords)
       THEN /\ exc' = all_coords.err /\ pc' = "failed" /\ fit' = fit /\ out' = out
       ELSE IF Len(all_coords.arr) = 0
       THEN /\ exc' = exc /\ pc' = "table" /\ fit' = <<>> /\ out' = Append(out, "map")
       ELSE IF UnpackFails(all_coords.arr)
       THEN /\ exc' = "ValueError" /\ pc' = "failed" /\ fit' = fit /\ out' = out
       ELSE /\ exc' = exc /\ pc' = "table"
            /\ fit' = FitBoundsArg(all_coords.arr)
            /\ out' = out \o <<"fit_bounds", "map">>
    /\ UNCHANGED <<passNo, api_key_input, projects, selected_map_name, selected_project,
                   project_id, fetched, features, walkVars>>

\* lines 213-230: the table, only when there are features
ShowTable ==
    /\ pc = "table"
    /\ out' = IF features # <<>> THEN Append(out, "table") ELSE out
    /\ pc' = "done"
    /\ UNCHANGED <<passNo, api_key_input, passVars, exc, walkVars>>

\* a UI interaction reruns the script from the top with the widget state
Interact ==
    /\ pc \in {"done", "failed"}
    /\ passNo < MaxPasses
    /\ passNo' = passNo + 1
    /\ \E key \in ApiKeys : api_key_input' = key
    /\ pc' = "start"
    /\ projects' = <<>>
    /\ selected_map_name' = ""
    /\ selected_project' = ""
    /\ project_id' = 0
    /\ fetched' = <<>>
    /\ features' = <<>>
    /\ fit' = <<>>
    /\ out' = <<>>
    /\ exc' = ""
    /\ UNCHANGED walkVars

Next ==
    \/ BlankMap
    \/ FetchProjects
    \/ NoProjects
    \/ SelectPlan
    \/ FetchFeatures
    \/ Reproject
    \/ DrawMap
    \/ ShowTable
    \/ Interact

Spec == Init /\ [][Next]_vars

\* ------------------------------------------------------------------ the pipeline alone
\* lines 186-230 from every features response up to PipeNodes
InitPipe ==
    /\ pc = "reproject"
    /\ passNo = 1
    /\ api_key_input = "key"
    /\ projects = <<[id |-> 1, name |-> "A", mapName |-> "M"]>>
    /\ selected_map_name = "M"
    /\ selected_project = "A"
    /\ project_id = 1
    /\ fetched \in FeatureLists(PipeNodes)
    /\ features = fetched
    /\ fit = <<>>
    /\ out = Widgets \o <<"GET projects: 2xx", "expander_projects_url", "expander_projects_json",
                          "select_map", "select_plan", "GET features: 2xx", "expander_features_url",
                          "expander_features_json", "found_n_features">>
    /\ exc = ""
    /\ wIn = Arr(<<>>) /\ wOut = Arr(<<>>) /\ wBefore = Arr(<<>>) /\ wAfter = Arr(<<>>)

NextPipe ==
    \/ Reproject
    \/ DrawMap
    \/ ShowTable

SpecPipe == InitPipe /\ [][NextPipe]_vars

\* ------------------------------------------------------------------ the walker alone
\* reproject_coords, and get_all_coords before and after it, on every
\* coordinate structure of depth 1..4 up to WalkNodes
AsFeature(coords) == [geometry |-> [type |-> "Polygon", coordinates |-> coords]]

InitWalk ==
    /\ pc = "walk"
    /\ passNo = 1
    /\ api_key_input = ""
    /\ projects = <<>>
    /\ selected_map_name = ""
    /\ selected_project = ""
    /\ project_id = 0
    /\ fetched = <<>>
    /\ features = <<>>
    /\ fit = <<>>
    /\ out = <<>>
    /\ exc = ""
    /\ wIn \in UNION {TreesUpTo(d, WalkNodes) : d \in 1..4}
    /\ wOut = Arr(<<>>) /\ wBefore = Arr(<<>>) /\ wAfter = Arr(<<>>)

Walk ==
    /\ pc = "walk"
    /\ wOut' = reproject_coords(wIn)
    /\ wBefore' = get_all_coords(<<AsFeature(wIn)>>)
    /\ wAfter' = IF IsErr(reproject_coords(wIn)) THEN reproject_coords(wIn)
                 ELSE get_all_coords(<<AsFeature(reproject_coords(wIn))>>)
    /\ pc' = "walked"
    /\ UNCHANGED <<passNo, api_key_input, passVars, out, exc, wIn>>

NextWalk == Walk

SpecWalk == InitWalk /\ [][NextWalk]_vars

\* ------------------------------------------------------------------ properties
\* a leaf: an array whose first element is a number
IsLeaf(x) == IsArr(x) /\ Len(x.arr) > 0 /\ IsNum(x.arr[1])

\* every array of the structure is non-empty
RECURSIVE AllNonEmpty(_)
AllNonEmpty(x) ==
    /\ IsArr(x)
    /\ Len(x.arr) > 0
    /\ (IsNum(x.arr[1]) \/ \A i \in 1..Len(x.arr) : AllNonEmpty(x.arr[i]))

\* the number of leaves of a structure
RECURSIVE LeafCount(_)
RECURSIVE SumLeaves(_, _)
SumLeaves(items, i) == IF i > Len(items) THEN 0 ELSE LeafCount(items[i]) + SumLeaves(items, i + 1)
LeafCount(x) == IF IsLeaf(x) THEN 1 ELSE SumLeaves(x.arr, 1)

\* the nesting depth of a structure without empty arrays
RECURSIVE DepthOfCoords(_)
DepthOfCoords(x) == IF IsLeaf(x) THEN 1 ELSE 1 + DepthOfCoords(x.arr[1])

\* b is a with every leaf (e, n) replaced by its projection, once, and nothing
\* else changed
RECURSIVE ProjectedOnce(_, _)
ProjectedOnce(a, b) ==
    IF IsLeaf(a)
    THEN b = Arr(<<Num(LonOf(a.arr[1].num, a.arr[2].num)), Num(LatOf(a.arr[1].num, a.arr[2].num))>>)
    ELSE /\ IsArr(b)
         /\ Len(b.arr) = Len(a.arr)
         /\ \A i \in 1..Len(a.arr) : ProjectedOnce(a.arr[i], b.arr[i])

\* C1: on a structure of depth 1 to 4 without empty arrays reproject_coords
\* returns a structure of the same nesting shape, each leaf replaced by its
\* transformed pair, and get_all_coords collects as many leaves after the
\* reprojection as before, which is the number of leaves of the input.
C1_ShapePreserved ==
    (pc = "walked" /\ AllNonEmpty(wIn)) =>
        /\ ~IsErr(wOut)
        /\ ProjectedOnce(wIn, wOut)
        /\ ~IsErr(wBefore) /\ ~IsErr(wAfter)
        /\ Len(wAfter.arr) = Len(wBefore.arr)
        /\ Len(wBefore.arr) = LeafCount(wIn)

\* a MultiPolygon-deep structure of two polygons walked
C1_Witness ==
    /\ pc = "walked"
    /\ AllNonEmpty(wIn)
    /\ DepthOfCoords(wIn) = 4
    /\ Len(wIn.arr) = 2
    /\ ~IsErr(wAfter)
    /\ Len(wAfter.arr) = 2

\* C3: the walkers complete without raising on every structure, also one that
\* is or contains an empty array.
C3_EmptyArraysHandled ==
    pc = "walked" => (~IsErr(wOut) /\ ~IsErr(wBefore))

\* what the pass has sent or rendered
Has(e) == \E i \in 1..Len(out) : out[i] = e
Pos(e) == CHOOSE i \in 1..Len(out) : out[i] = e
Count(E) == Cardinality({i \in 1..Len(out) : out[i] \in E})
ProjectsRequests == {"GET projects: 2xx", "GET projects: non-2xx"}
FeaturesRequests == {"GET features: 2xx", "GET features: non-2xx"}
CoordsOf(feature) == GeomOf(feature).coordinates
HasCoords(feature) == "coordinates" \in DOMAIN GeomOf(feature)

\* the leaves of a structure without empty arrays, as a set
RECURSIVE LeafSet(_)
LeafSet(x) == IF IsLeaf(x) THEN {x} ELSE UNION {LeafSet(x.arr[i]) : i \in 1..Len(x.arr)}
AllLeaves(fs) == UNION {LeafSet(CoordsOf(fs[i])) : i \in {j \in 1..Len(fs) : HasCoords(fs[j])}}
FirstsOf(leaves) == {l.arr[1].num : l \in leaves}
SecondsOf(leaves) == {l.arr[2].num : l \in leaves}

\* C2: once the pass has reached map drawing, and on through bounds and table,
\* every leaf of every fetched feature of a supported type carries the
\* projection of its fetched value, applied once, and the list has the fetched
\* length.
C2_ExactlyOnce ==
    (pc \in {"draw", "table", "done"} /\ Has("found_n_features")) =>
        /\ Len(features) = Len(fetched)
        /\ \A i \in 1..Len(fetched) :
             TypeOf(GeomOf(fetched[i])) \in SupportedTypes =>
                 /\ HasCoords(features[i])
                 /\ ProjectedOnce(CoordsOf(fetched[i]), CoordsOf(features[i]))

\* a pass with a MultiPolygon among two features, drawn, zoomed and tabulated
C2_Witness ==
    /\ pc = "done"
    /\ Has("fit_bounds") /\ Has("map") /\ Has("table")
    /\ Len(features) = 2
    /\ \E i \in 1..2 : TypeOf(GeomOf(fetched[i])) = "MultiPolygon"

\* C4 as stated: the box handed to fit_bounds is ((min_lon, min_lat),
\* (max_lon, max_lat)), lon the first and lat the second component of a leaf.
C4_LonLatCorners ==
    fit # <<>> =>
        fit = <<<<Min(FirstsOf(AllLeaves(features))), Min(SecondsOf(AllLeaves(features)))>>,
                <<Max(FirstsOf(AllLeaves(features))), Max(SecondsOf(AllLeaves(features)))>>>>

\* C4 amended: when the features have at least one leaf the box handed to
\* fit_bounds is ((min_lat, min_lon), (max_lat, max_lon)), each taken
\* component-wise over all leaves of all features, lon the first and lat the
\* second component of a leaf; without a leaf fit_bounds is not called.
C4_LatLonCorners ==
    pc \in {"table", "done"} =>
        IF AllLeaves(features) = {}
        THEN fit = <<>>
        ELSE fit = <<<<Min(SecondsOf(AllLeaves(features))), Min(FirstsOf(AllLeaves(features)))>>,
                     <<Max(SecondsOf(AllLeaves(features))), Max(FirstsOf(AllLeaves(features)))>>>>

\* two features whose box is not a point
C4_Witness ==
    /\ pc = "done"
    /\ Len(features) = 2
    /\ fit # <<>>
    /\ fit[1][1] < fit[2][1]
    /\ fit[1][2] < fit[2][2]

\* C5: after a features response with an empty list the pass does not fail,
\* fit_bounds is not called and the map is rendered.
C5_EmptyKeepsViewport ==
    (Has("found_n_features") /\ fetched = <<>>) =>
        /\ pc # "failed" /\ exc = ""
        /\ fit = <<>> /\ ~Has("fit_bounds")
        /\ (pc \in {"table", "done"} => Has("map"))

C5_Witness ==
    /\ pc = "done"
    /\ Has("found_n_features")
    /\ fetched = <<>>
    /\ Has("map")
    /\ fit = <<>>

\* C6: a non-2xx response to either request ends the pass there: after a
\* failed projects request nothing but the request follows the widgets, after
\* a failed features request there is no reprojection, map or table; neither
\* request is repeated, and the only step from a failed pass is the next rerun.
C6_FailureEndsPass ==
    /\ [](/\ Has("GET projects: non-2xx") =>
               /\ pc = "failed" /\ exc = "HTTPError"
               /\ out = Widgets \o <<"GET projects: non-2xx">>
               /\ projects = <<>>
          /\ Has("GET features: non-2xx") =>
               /\ pc = "failed" /\ exc = "HTTPError"
               /\ out[Len(out)] = "GET features: non-2xx"
               /\ features = <<>> /\ fit = <<>>
               /\ ~Has("map") /\ ~Has("fit_bounds") /\ ~Has("table")
          /\ Count(ProjectsRequests) <= 1
          /\ Count(FeaturesRequests) <= 1)
    /\ [][pc = "failed" => (pc' = "start" /\ passNo' = passNo + 1 /\ out' = <<>>)]_vars

\* a failed features request after a successful projects request
C6_Witness ==
    /\ pc = "failed"
    /\ Has("GET projects: 2xx")
    /\ Has("GET features: non-2xx")

\* C7 as stated: every finished pass has issued a projects request.
C7_EveryPassFetches ==
    pc \in {"done", "failed"} => Count(ProjectsRequests) >= 1

\* C7 amended: a pass with a non-empty API key issues exactly one projects
\* request of its own, right after the input widgets and before anything else;
\* a pass with an empty API key issues no request and renders the blank map.
C7_KeyedPassFetches ==
    pc \notin {"start", "walk", "walked"} =>
        IF api_key_input # ""
        THEN /\ Len(out) > Len(Widgets)
             /\ SubSeq(out, 1, Len(Widgets)) = Widgets
             /\ out[Len(Widgets) + 1] \in ProjectsRequests
             /\ Count(ProjectsRequests) = 1
        ELSE /\ pc = "done"
             /\ out = Widgets \o <<"blank_map">>

\* a third pass that has fetched its own projects and drawn a map
C7_Witness ==
    /\ passNo = 3
    /\ pc = "done"
    /\ Has("GET projects: 2xx")
    /\ Has("map")

\* C8: a pass issues at most one features request, only after its projects
\* request succeeded with a non-empty list and both select boxes were shown,
\* and for the id of a project of that list under the selected map name; with
\* an empty project list there is neither a features request nor a map.
C8_FeaturesRequestGuarded ==
    /\ Count(FeaturesRequests) <= 1
    /\ \A k \in 1..Len(out) :
         out[k] \in FeaturesRequests =>
             /\ projects # <<>>
             /\ Has("GET projects: 2xx") /\ Has("select_map") /\ Has("select_plan")
             /\ Pos("GET projects: 2xx") < Pos("select_map")
             /\ Pos("select_map") < Pos("select_plan")
             /\ Pos("select_plan") < k
             /\ selected_map_name # "" /\ selected_project # ""
             /\ \E i \in 1..Len(projects) :
                  /\ projects[i].id = project_id
                  /\ MapNameOf(projects[i]) = selected_map_name
    /\ (Has("GET projects: 2xx") /\ projects = <<>>) =>
             /\ Count(FeaturesRequests) = 0
             /\ ~Has("map")
             /\ (pc = "done" => Has("no_projects"))

\* a features request for the plan of one of two maps
C8_Witness ==
    /\ Has("GET features: 2xx")
    /\ Len(projects) = 2
    /\ MapNameOf(projects[1]) # MapNameOf(projects[2])
    /\ project_id = 2

\* C9: every leaf that contributes to the box handed to fit_bounds is the
\* projection of the leaf that was fetched.
C9_BoundsOnlyReprojected ==
    Has("fit_bounds") =>
        \A i \in 1..Len(features) :
            HasCoords(features[i]) => ProjectedOnce(CoordsOf(fetched[i]), CoordsOf(features[i]))

\* C10: every project is in exactly one map group, and every project of the
\* selected group is the value of some plan name of the plan selector.
C10_NoProjectLost ==
    Has("select_plan") =>
        LET maps == GroupByMap(projects)
            project_options == ProjectOptions(maps[selected_map_name])
        IN  /\ \A i \in 1..Len(projects) :
                 Cardinality({m \in DOMAIN maps :
                     \E j \in 1..Len(maps[m]) : maps[m][j] = projects[i]}) = 1
            /\ \A j \in 1..Len(maps[selected_map_name]) :
                 \E plan \in DOMAIN project_options :
                     project_options[plan] = maps[selected_map_name][j].id

====
